---- MODULE Spec2Model ----
(***************************************************************************)
(* State-machine model of the arena servers of this repository.           *)
(*                                                                         *)
(*   src/unnamed/part_001  the server with the per-address admission      *)
(*                         guard, the speed-validated move handler and    *)
(*                         the periodic sweeps          (suffix _part001) *)
(*   src/server.js         the server with the throttled move handler and *)
(*                         the three attack kinds        (suffix _server) *)
(*                                                                         *)
(* Node runs every listener and timer callback to completion, so each     *)
(* listener is one action.  Socket ids are issued by the transport and    *)
(* are never issued twice; Math.random() and Date.now() are inputs.       *)
(* Coordinates are integers, angles are hundredths of a degree            *)
(* (PI = 18000), times are milliseconds.                                  *)
(***************************************************************************)
EXTENDS Integers, Sequences, FiniteSets, TLC

VARIABLES
    now,            \* Date.now()
    sockets,        \* keys of io.sockets.sockets: the connected sockets
    handshake,      \* socket id -> socket.handshake.address, for every id issued
    ipConnections,  \* address -> set of socket ids (a Map: absent keys are not in DOMAIN)
    players,        \* gameState.players, a Map kept in insertion order: sequence of records
    playerCount,    \* gameState.playerCount
    nextPlayerId,   \* let nextPlayerId
    timers,         \* pending setTimeout callbacks of the respawn listener, in firing order
    emitted,        \* the events the last listener or callback emitted, in order
    step,           \* the last listener or callback that ran: [op, sock, branch]
    program,        \* which server of the repository is running
    recordedAt      \* history: socket id -> server time at which its position was last written

vars == <<now, sockets, handshake, ipConnections, players, playerCount,
          nextPlayerId, timers, emitted, step, program, recordedAt>>

-----------------------------------------------------------------------------
(* Program constants *)

MELEE_RANGE == 100
RESPAWN_TIME == 3000
PLAYER_RADIUS == 20
PI == 18000
Margin == 100

MAX_CONNECTIONS_PER_IP == 3
MELEE_DAMAGE_part001 == 50
MELEE_ANGLE_part001 == 9000
MAP_WIDTH_part001 == 1200
MAP_HEIGHT_part001 == 800
MaxSpeed_part001 == 15
MoveSlack_part001 == 20
MELEE_DAMAGE_server == 25
MELEE_ANGLE_server == 6000
MAP_WIDTH_server == 4800
MAP_HEIGHT_server == 3200
MoveThrottle_server == 16
HitBuffer_server == 10
AreaRangeBonus_server == 30
VerticalRange_server == 80
InactivityTimeout_part001 == 15000
GameLoopTimeout_part001 == 30000

Undefined == -1000000

-----------------------------------------------------------------------------
(* Bounds of the model *)

StartTime == 100000     \* Date.now() when the server starts
MaxSockets == 4         \* socket ids the transport issues in a run of the admission scenario
MaxPlayers == 2         \* sockets the transport issues in a run of the game scenarios
MoveElapsed == 3000     \* the clock of the move scenario stops this long after StartTime
CombatElapsed == 3000   \* the clock of the combat scenario stops this long after StartTime
SweepTick == 16000      \* a pause long enough to make every player inactive
MaxTimers == 2          \* respawn timers pending at once
MaxPlayerNumber == 5    \* nextPlayerId stops here in the duplicate-identity scenario
RandDen == 4600         \* Math.random() is drawn as k / RandDen

-----------------------------------------------------------------------------
(* Map and event helpers *)

Min(S) == CHOOSE m \in S : \A n \in S : m <= n

Has(ps, id) == \E i \in 1..Len(ps) : ps[i].id = id

IndexOf(ps, id) == CHOOSE i \in 1..Len(ps) : ps[i].id = id

Get(ps, id) == ps[IndexOf(ps, id)]

Delete(ps, id) == SelectSeq(ps, LAMBDA p : p.id # id)

Ids(ps) == {ps[i].id : i \in 1..Len(ps)}

MapDelete(m, k) == [a \in DOMAIN m \ {k} |-> m[a]]

MapSet(m, k, v) == [a \in DOMAIN m \cup {k} |-> IF a = k THEN v ELSE m[a]]

\* One emitted event.  to: "all" (io.emit), "others" (socket.broadcast.emit),
\* "one" (socket.emit); sock: the socket of the listener, 0 for a timer.
Ev(type, to, sock, pid, x, y, health, n) ==
    [type |-> type, to |-> to, sock |-> sock, pid |-> pid,
     x |-> x, y |-> y, health |-> health, n |-> n]

EvPlayerLeft(id) == Ev("playerLeft", "all", 0, id, 0, 0, 0, 0)

EvPlayerCountUpdate(n) == Ev("playerCountUpdate", "all", 0, 0, 0, 0, 0, n)

EvPlayer(type, to, sock, p) == Ev(type, to, sock, p.id, p.x, p.y, p.health, p.kills)

\* what is recorded of the last listener: its event, its socket, the branch it
\* took, whether io.use reset the address, the x, y of a move payload, the
\* angle of an attack payload or the weaponAngle of a move payload, the
\* direction of an areaAttack or move payload, and whether the event came
\* with a data object at all
Step(op, sock, branch, forced) ==
    [op |-> op, sock |-> sock, branch |-> branch, forced |-> forced, x |-> 0, y |-> 0,
     angle |-> 0, direction |-> 0, data |-> TRUE]

Count(evs, type, pid) ==
    Cardinality({i \in 1..Len(evs) : evs[i].type = type /\ evs[i].pid = pid})

CountType(evs, type) == Cardinality({i \in 1..Len(evs) : evs[i].type = type})

-----------------------------------------------------------------------------
(* Spawn allocator *)

\* margin + Math.random() * (size - 2 * margin), Math.random() = k / RandDen
SpawnCoord(k, size) == Margin + (k * (size - 2 * Margin)) \div RandDen

getRandomSpawnPoint(kx, ky, w, h) == [x |-> SpawnCoord(kx, w), y |-> SpawnCoord(ky, h)]

-----------------------------------------------------------------------------
(* part_001: listeners as functions of the shared state                    *)
(* g = [sockets, ipConnections, players, playerCount, emitted]             *)

Shared == [sockets |-> sockets, ipConnections |-> ipConnections, players |-> players,
           playerCount |-> playerCount, emitted |-> <<>>]

\* mutant: the entry of an address is kept when its set becomes empty
IpForget_keepEmpty(ipc, ip, c) ==
    IF ip \in DOMAIN ipc THEN [ipc EXCEPT ![ip] = @ \ {c}] ELSE ipc

\* the cleanup both disconnect listeners do on the admission table
IpForget(ipc, ip, c) ==
    IF ip \in DOMAIN ipc
    THEN IF ipc[ip] \ {c} = {} THEN MapDelete(ipc, ip) ELSE [ipc EXCEPT ![ip] = @ \ {c}]
    ELSE ipc

\* mutant: the record is deleted and counted, nothing is announced
PlayerLeave_silent(g, c) ==
    IF Has(g.players, c)
    THEN LET ps == Delete(g.players, c)
         IN [g EXCEPT !.players = ps, !.playerCount = Len(ps)]
    ELSE g

\* the disconnect listener registered by io.on('connection')
PlayerLeave(g, c) ==
    IF Has(g.players, c)
    THEN LET ps == Delete(g.players, c)
         IN [g EXCEPT !.players = ps,
                      !.playerCount = Len(ps),
                      !.emitted = @ \o <<EvPlayerLeft(c), EvPlayerCountUpdate(Len(ps))>>]
    ELSE g

\* a connected socket closes: it leaves io.sockets.sockets, then its two
\* disconnect listeners run in the order they were registered
OnDisconnect(g, c, ip) ==
    LET g1 == [g EXCEPT !.sockets = @ \ {c}, !.ipConnections = IpForget(@, ip, c)]
        g2 == PlayerLeave(g1, c)
    IN [g2 EXCEPT !.ipConnections = IpForget(@, ip, c)]

RECURSIVE DisconnectAll(_, _, _)
DisconnectAll(g, ids, ip) ==
    IF ids = {} THEN g
    ELSE LET c == Min(ids) IN DisconnectAll(OnDisconnect(g, c, ip), ids \ {c}, ip)

\* mutant: only the oldest connection of the address is evicted
forceCleanupIP_oldestOnly(g, ip) ==
    IF ip \in DOMAIN g.ipConnections
    THEN LET open == {c \in g.ipConnections[ip] : c \in g.sockets}
         IN IF open = {} THEN g ELSE OnDisconnect(g, Min(open), ip)
    ELSE g

forceCleanupIP(g, ip) ==
    IF ip \in DOMAIN g.ipConnections
    THEN LET open == {c \in g.ipConnections[ip] : c \in g.sockets}
             g1 == DisconnectAll(g, open, ip)
         IN [g1 EXCEPT !.ipConnections = MapDelete(@, ip)]
    ELSE g

RECURSIVE DeleteAll(_, _)
DeleteAll(ps, ids) ==
    IF ids = {} THEN ps
    ELSE LET c == Min(ids) IN DeleteAll(Delete(ps, c), ids \ {c})

\* io.use: the stale connections of the address are purged, a full address is
\* reset, the new socket is registered
AdmissionPurge(g, ip) ==
    IF ip \in DOMAIN g.ipConnections
    THEN LET stale == {c \in g.ipConnections[ip] : c \notin g.sockets}
             gone == stale \cap Ids(g.players)
             ps == DeleteAll(g.players, gone)
         IN [g EXCEPT !.ipConnections[ip] = @ \ stale,
                      !.players = ps,
                      !.playerCount = IF gone = {} THEN @ ELSE Len(ps)]
    ELSE g

\* mutant: the cap is tested with > instead of >=
AtCap_offByOne(g, ip) ==
    /\ ip \in DOMAIN g.ipConnections
    /\ Cardinality(g.ipConnections[ip]) > MAX_CONNECTIONS_PER_IP

AtCap(g, ip) ==
    /\ ip \in DOMAIN g.ipConnections
    /\ Cardinality(g.ipConnections[ip]) >= MAX_CONNECTIONS_PER_IP

AdmissionUse(g, s, ip) ==
    LET g1 == AdmissionPurge(g, ip)
        g2 == IF AtCap(g1, ip) THEN forceCleanupIP(g1, ip) ELSE g1
        kept == IF ip \in DOMAIN g2.ipConnections THEN g2.ipConnections[ip] ELSE {}
    IN [g2 EXCEPT !.ipConnections = MapSet(@, ip, kept \cup {s})]

newPlayer_part001(s, spawn, playerNumber, t) ==
    [id |-> s, x |-> spawn.x, y |-> spawn.y, health |-> 100, maxHealth |-> 100,
     name |-> playerNumber, kills |-> 0, lastActivity |-> t]

-----------------------------------------------------------------------------
(* Geometry *)

Abs(n) == IF n < 0 THEN -n ELSE n

Sq(n) == n * n

RECURSIVE Gcd(_, _)
Gcd(a, b) == IF b = 0 THEN a ELSE Gcd(b, a % b)

\* the largest r in lo..hi with r * r <= n
RECURSIVE FloorSqrt(_, _, _)
FloorSqrt(n, lo, hi) ==
    IF lo >= hi THEN lo
    ELSE LET mid == (lo + hi + 1) \div 2
         IN IF Sq(mid) <= n THEN FloorSqrt(n, mid, hi) ELSE FloorSqrt(n, lo, mid - 1)

\* Math.sqrt(d2) <= num / den, for den > 0; the squares are compared only when
\* num / den lies within one unit of the root
SqrtLeq(d2, num, den) ==
    LET r == FloorSqrt(d2, 0, 2000)
    IN IF num >= den * (r + 1) THEN TRUE
       ELSE IF num < den * r THEN FALSE
       ELSE d2 * Sq(den) <= Sq(num)

\* Math.atan of a reduced ratio a / b in the first quadrant, in hundredths of a degree
AtanRatio(a, b) ==
    CASE a = 0 -> 0
      [] b = 0 -> 9000
      [] a = 1 /\ b = 1 -> 4500
      [] a = 1 /\ b = 2 -> 2657
      [] a = 1 /\ b = 3 -> 1843
      [] a = 1 /\ b = 4 -> 1404
      [] a = 1 /\ b = 5 -> 1131
      [] a = 1 /\ b = 6 -> 946
      [] a = 2 /\ b = 1 -> 6343
      [] a = 2 /\ b = 3 -> 3369
      [] a = 2 /\ b = 5 -> 2180
      [] a = 3 /\ b = 1 -> 7157
      [] a = 3 /\ b = 2 -> 5631
      [] a = 3 /\ b = 4 -> 3687
      [] a = 3 /\ b = 5 -> 3096
      [] a = 4 /\ b = 1 -> 7596
      [] a = 4 /\ b = 3 -> 5313
      [] a = 4 /\ b = 5 -> 3866
      [] a = 5 /\ b = 1 -> 7869
      [] a = 5 /\ b = 2 -> 6820
      [] a = 5 /\ b = 3 -> 5904
      [] a = 5 /\ b = 4 -> 5134
      [] a = 5 /\ b = 6 -> 3981
      [] a = 6 /\ b = 1 -> 8054
      [] a = 6 /\ b = 5 -> 5019

\* Math.atan2(dy, dx), in (-PI, PI]
Atan2(dy, dx) ==
    IF dx = 0 /\ dy = 0 THEN 0
    ELSE LET g == Gcd(Abs(dy), Abs(dx))
             a == AtanRatio(Abs(dy) \div g, Abs(dx) \div g)
         IN IF dx >= 0 THEN (IF dy >= 0 THEN a ELSE -a)
            ELSE (IF dy >= 0 THEN PI - a ELSE a - PI)

-----------------------------------------------------------------------------
(* part_001: io.use and io.on('connection') *)

Connection_part001(s, ip, connected, kx, ky) ==
    LET g0 == Shared
        g1 == AdmissionUse(g0, s, ip)
        forced == AtCap(AdmissionPurge(g0, ip), ip)
        spawn == getRandomSpawnPoint(kx, ky, MAP_WIDTH_part001, MAP_HEIGHT_part001)
        np == newPlayer_part001(s, spawn, nextPlayerId, now)
        ps == Append(g1.players, np)
    IN /\ handshake' = MapSet(handshake, s, ip)
       /\ UNCHANGED <<program, now, timers>>
       /\ IF ~connected
          THEN \* the socket is not connected: disconnect(true) does nothing, no listener runs
               /\ sockets' = g1.sockets
               /\ ipConnections' = g1.ipConnections
               /\ players' = g1.players
               /\ playerCount' = g1.playerCount
               /\ emitted' = g1.emitted
               /\ step' = Step("connection", s, "rejected", forced)
               /\ UNCHANGED <<nextPlayerId, recordedAt>>
          ELSE IF Has(g1.players, s)
          THEN \* duplicate: the socket is closed, only the listener of io.use is registered on it
               /\ sockets' = g1.sockets \ {s}
               /\ ipConnections' = IpForget(g1.ipConnections, ip, s)
               /\ players' = g1.players
               /\ playerCount' = g1.playerCount
               /\ emitted' = g1.emitted
               /\ nextPlayerId' = nextPlayerId + 1
               /\ step' = Step("connection", s, "duplicate", forced)
               /\ UNCHANGED recordedAt
          ELSE /\ sockets' = g1.sockets \cup {s}
               /\ ipConnections' = g1.ipConnections
               /\ players' = ps
               /\ playerCount' = Len(ps)
               /\ emitted' = g1.emitted \o
                     <<Ev("gameState", "one", s, s, 0, 0, 0, Len(ps)),
                       EvPlayer("playerUpdate", "all", s, np),
                       Ev("playerCountUpdate", "all", s, 0, 0, 0, 0, Len(ps))>>
               /\ nextPlayerId' = nextPlayerId + 1
               /\ recordedAt' = MapSet(recordedAt, s, now)
               /\ step' = Step("connection", s, "created", forced)

\* socket.on('disconnect') of both io.use and io.on('connection'), for a client that closes
Disconnect_part001(s) ==
    LET g == OnDisconnect(Shared, s, handshake[s])
    IN /\ s \in sockets
       /\ sockets' = g.sockets
       /\ ipConnections' = g.ipConnections
       /\ players' = g.players
       /\ playerCount' = g.playerCount
       /\ emitted' = g.emitted
       /\ step' = Step("disconnect", s, "", FALSE)
       /\ UNCHANGED <<program, now, handshake, nextPlayerId, timers, recordedAt>>

-----------------------------------------------------------------------------
(* part_001: the listeners of a connected socket *)

Dist2(ax, ay, bx, by) == Sq(bx - ax) + Sq(by - ay)

\* player.lastActivity || Date.now()
OrNow(v) == IF v = Undefined \/ v = 0 THEN now ELSE v

\* mutant: the 20 unit buffer is left out
SpeedOk_part001_noSlack(p, x, y) ==
    LET timeSinceLastUpdate == now - OrNow(p.lastActivity)
    IN SqrtLeq(Dist2(p.x, p.y, x, y), (MaxSpeed_part001 \div 5) * timeSinceLastUpdate, 200)

\* distance <= maxSpeed * (timeSinceLastUpdate / 1000) + 20, both sides times 200
SpeedOk_part001(p, x, y) ==
    LET timeSinceLastUpdate == now - OrNow(p.lastActivity)
    IN SqrtLeq(Dist2(p.x, p.y, x, y),
               (MaxSpeed_part001 \div 5) * timeSinceLastUpdate + 200 * MoveSlack_part001, 200)

\* mutant: the correction is broadcast with io.emit
Correction_toAll(s, p) == <<Ev("serverCorrection", "all", s, s, p.x, p.y, 0, now)>>

\* socket.emit('serverCorrection', {x: player.x, y: player.y, timestamp: Date.now()})
Correction(s, p) == <<Ev("serverCorrection", "one", s, s, p.x, p.y, 0, now)>>

\* mutant: the move of a dead player is handled like any other
CanMove_dead(ps, s) == Has(ps, s)

\* if (player && player.health > 0)
CanMove(ps, s) == Has(ps, s) /\ Get(ps, s).health > 0

\* socket.on('move'), data = {x, y, timestamp}
Move_part001(s, x, y, timestamp) ==
    /\ s \in sockets
    /\ UNCHANGED <<program, now, sockets, handshake, ipConnections, playerCount, nextPlayerId, timers>>
    /\ IF CanMove(players, s)
       THEN LET i == IndexOf(players, s)
                p == players[i]
            IN IF SpeedOk_part001(p, x, y)
               THEN LET q == [p EXCEPT !.x = x, !.y = y, !.lastActivity = OrNow(timestamp)]
                    IN /\ players' = [players EXCEPT ![i] = q]
                       /\ emitted' = <<EvPlayer("playerUpdate", "all", s, q)>>
                       /\ recordedAt' = MapSet(recordedAt, s, now)
                       /\ step' = [Step("move", s, "accepted", FALSE) EXCEPT !.x = x, !.y = y]
               ELSE /\ emitted' = Correction(s, p)
                    /\ step' = [Step("move", s, "rejected", FALSE) EXCEPT !.x = x, !.y = y]
                    /\ UNCHANGED <<players, recordedAt>>
       ELSE /\ emitted' = <<>>
            /\ step' = Step("move", s, "ignored", FALSE)
            /\ UNCHANGED <<players, recordedAt>>

\* distance <= MELEE_RANGE and Math.abs(angleToPlayer - data.angle) <= MELEE_ANGLE / 2
InCone_part001(a, p, angle) ==
    /\ SqrtLeq(Dist2(a.x, a.y, p.x, p.y), MELEE_RANGE, 1)
    /\ 2 * Abs(Atan2(p.y - a.y, p.x - a.x) - angle) <= MELEE_ANGLE_part001

\* mutant: dead targets are not skipped
Skipped_selfOnly(p, s) == p.id = s

\* mutant: the attacker is not skipped
Skipped_deadOnly(p, s) == p.health <= 0

\* if (player.health <= 0 || playerId === socket.id) continue;
Skipped(p, s) == p.health <= 0 \/ p.id = s

\* mutant: the playerHit event reports the health before the subtraction
ApplyHit_staleHealth(ps, out, s, i, damage) ==
    [players |-> [ps EXCEPT ![i].health = @ - damage],
     emitted |-> Append(out, Ev("playerHit", "all", s, ps[i].id, ps[i].x, ps[i].y,
                                ps[i].health, 0))]

\* mutant: a hit takes 5 more than the damage, which no longer divides 100
ApplyHit_uneven(ps, out, s, i, damage) ==
    [players |-> [ps EXCEPT ![i].health = @ - (damage + 5)],
     emitted |-> Append(out, Ev("playerHit", "all", s, ps[i].id, ps[i].x, ps[i].y,
                                ps[i].health - (damage + 5), 0))]

\* the tail every attack shares: damage, playerHit, and on death kills++ and playerKilled
ApplyHit(ps, out, s, i, damage) ==
    LET h == ps[i].health - damage
        ps1 == [ps EXCEPT ![i].health = h]
        out1 == Append(out, Ev("playerHit", "all", s, ps1[i].id, ps1[i].x, ps1[i].y, h, 0))
        k == IndexOf(ps1, s)
        ps2 == [ps1 EXCEPT ![k].kills = @ + 1]
    IN IF h <= 0
       THEN [players |-> ps2,
             emitted |-> Append(out1, Ev("playerKilled", "all", s, ps2[i].id, ps2[i].x,
                                         ps2[i].y, h, ps2[k].kills))]
       ELSE [players |-> ps1, emitted |-> out1]

RECURSIVE AttackLoop_part001(_, _, _, _, _)
AttackLoop_part001(ps, out, s, angle, i) ==
    IF i > Len(ps) THEN [players |-> ps, emitted |-> out]
    ELSE IF Skipped(ps[i], s)
         THEN AttackLoop_part001(ps, out, s, angle, i + 1)
    ELSE IF InCone_part001(Get(ps, s), ps[i], angle)
         THEN LET r == ApplyHit(ps, out, s, i, MELEE_DAMAGE_part001)
              IN AttackLoop_part001(r.players, r.emitted, s, angle, i + 1)
    ELSE AttackLoop_part001(ps, out, s, angle, i + 1)

\* socket.on('attack'), data = {angle}
Attack_part001(s, angle) ==
    /\ s \in sockets
    /\ UNCHANGED <<program, now, sockets, handshake, ipConnections, playerCount, nextPlayerId,
                   timers, recordedAt>>
    /\ IF Has(players, s) /\ Get(players, s).health > 0
       THEN LET ps0 == [players EXCEPT ![IndexOf(players, s)].lastActivity = now]
                r == AttackLoop_part001(ps0, <<>>, s, angle, 1)
            IN /\ players' = r.players
               /\ emitted' = r.emitted
               /\ step' = [Step("attack", s, "swing", FALSE) EXCEPT !.angle = angle]
       ELSE /\ emitted' = <<>>
            /\ step' = [Step("attack", s, "ignored", FALSE) EXCEPT !.angle = angle]
            /\ UNCHANGED players

\* socket.on('respawn'): the revive is deferred by setTimeout
Respawn_part001(s) ==
    /\ s \in sockets
    /\ Has(players, s)
    /\ players' = [players EXCEPT ![IndexOf(players, s)].lastActivity = now]
    /\ timers' = Append(timers, [id |-> s, at |-> now + RESPAWN_TIME])
    /\ emitted' = <<>>
    /\ step' = Step("respawn", s, "scheduled", FALSE)
    /\ UNCHANGED <<program, now, sockets, handshake, ipConnections, playerCount, nextPlayerId, recordedAt>>

Revived_keepsHealth(p, spawn) == [p EXCEPT !.x = spawn.x, !.y = spawn.y]

\* player.x = spawn.x; player.y = spawn.y; player.health = player.maxHealth
Revived(p, spawn) == [p EXCEPT !.x = spawn.x, !.y = spawn.y, !.health = p.maxHealth]

RespawnedEvents_unchecked(ps, id) == <<Ev("playerRespawned", "all", 0, id, 0, 0, 0, 0)>>

\* io.emit('playerRespawned', player), inside if (gameState.players.has(socket.id))
RespawnedEvents(ps, id) ==
    IF Has(ps, id) THEN <<EvPlayer("playerRespawned", "all", 0, Get(ps, id))>> ELSE <<>>

\* the callback given to setTimeout by the respawn listener
RespawnTimeout(kx, ky, w, h) ==
    LET t == Head(timers)
        spawn == getRandomSpawnPoint(kx, ky, w, h)
    IN /\ timers # <<>>
       /\ now >= t.at
       /\ timers' = Tail(timers)
       /\ UNCHANGED <<program, now, sockets, handshake, ipConnections, playerCount, nextPlayerId>>
       /\ IF Has(players, t.id)
          THEN LET i == IndexOf(players, t.id)
                   q == Revived(players[i], spawn)
               IN /\ players' = [players EXCEPT ![i] = q]
                  /\ emitted' = RespawnedEvents(players', t.id)
                  /\ recordedAt' = MapSet(recordedAt, t.id, now)
                  /\ step' = Step("timeout", t.id, "revived", FALSE)
          ELSE /\ emitted' = RespawnedEvents(players, t.id)
               /\ step' = Step("timeout", t.id, "noop", FALSE)
               /\ UNCHANGED <<players, recordedAt>>

\* socket.on('ping')
Ping_part001(s) ==
    /\ s \in sockets
    /\ Has(players, s)
    /\ players' = [players EXCEPT ![IndexOf(players, s)].lastActivity = now]
    /\ emitted' = <<>>
    /\ step' = Step("ping", s, "", FALSE)
    /\ UNCHANGED <<program, now, sockets, handshake, ipConnections, playerCount, nextPlayerId,
                   timers, recordedAt>>

-----------------------------------------------------------------------------
(* part_001: the periodic sweeps *)

cleanupDisconnectedPlayers ==
    LET gone == {c \in Ids(players) : c \notin sockets}
        ps == DeleteAll(players, gone)
    IN /\ players' = ps
       /\ playerCount' = IF gone # {} THEN Len(ps) ELSE playerCount
       /\ emitted' = IF gone # {} THEN <<EvPlayerCountUpdate(Len(ps))>> ELSE <<>>
       /\ step' = Step("cleanup", 0, "", FALSE)
       /\ UNCHANGED <<program, now, sockets, handshake, ipConnections, nextPlayerId, timers, recordedAt>>

\* mutant: the first loop of the sweep leaves the admission table alone
SweepAddresses_keepAll(ipc) == ipc

\* the first loop of the 5 s sweep: the admission table is reconciled with the live sockets
SweepAddresses(ipc) ==
    LET keep == {ip \in DOMAIN ipc : ipc[ip] \cap sockets # {}}
    IN [ip \in keep |-> ipc[ip] \cap sockets]

StaleAdmitted(ipc) == {c \in UNION {ipc[ip] : ip \in DOMAIN ipc} : c \notin sockets}

Inactive_never(p, timeout) == FALSE

\* now - player.lastActivity > timeout
Inactive(p, timeout) == now - p.lastActivity > timeout

RECURSIVE LeftEvents(_, _)
LeftEvents(ps, drop) ==
    IF ps = <<>> THEN <<>>
    ELSE (IF Head(ps).id \in drop THEN <<EvPlayerLeft(Head(ps).id)>> ELSE <<>>)
         \o LeftEvents(Tail(ps), drop)

InactivitySweep_part001 ==
    LET ps1 == DeleteAll(players, StaleAdmitted(ipConnections) \cap Ids(players))
        drop == {ps1[i].id : i \in {j \in 1..Len(ps1) :
                     ps1[j].id \notin sockets \/ Inactive(ps1[j], InactivityTimeout_part001)}}
        ps2 == DeleteAll(ps1, drop)
    IN /\ ipConnections' = SweepAddresses(ipConnections)
       /\ players' = ps2
       /\ playerCount' = IF drop # {} THEN Len(ps2) ELSE playerCount
       /\ emitted' = LeftEvents(ps1, drop) \o
                     (IF drop # {} THEN <<EvPlayerCountUpdate(Len(ps2))>> ELSE <<>>)
       /\ step' = Step("sweep", 0, "", FALSE)
       /\ UNCHANGED <<program, now, sockets, handshake, nextPlayerId, timers, recordedAt>>

RECURSIVE GameLoopPass(_, _, _)
GameLoopPass(ps, out, i) ==
    IF i > Len(ps) THEN [players |-> ps, emitted |-> out]
    ELSE IF Inactive(ps[i], GameLoopTimeout_part001)
         THEN LET ps1 == Delete(ps, ps[i].id)
              IN GameLoopPass(ps1, out \o <<EvPlayerLeft(ps[i].id),
                                            EvPlayerCountUpdate(Len(ps1))>>, i)
         ELSE GameLoopPass(ps, out, i + 1)

GameLoop_part001 ==
    LET r == GameLoopPass(players, <<>>, 1)
    IN /\ players' = r.players
       /\ playerCount' = IF r.emitted # <<>> THEN Len(r.players) ELSE playerCount
       /\ emitted' = r.emitted
       /\ step' = Step("gameLoop", 0, "", FALSE)
       /\ UNCHANGED <<program, now, sockets, handshake, ipConnections, nextPlayerId, timers, recordedAt>>

-----------------------------------------------------------------------------
(* server.js: io.on('connection') and the listeners of a connected socket *)

newPlayer_server(s, spawn, playerNumber, t) ==
    [id |-> s, x |-> spawn.x, y |-> spawn.y, health |-> 100, maxHealth |-> 100,
     name |-> playerNumber, direction |-> 1, weaponAngle |-> 0, kills |-> 0,
     lastActivity |-> t, lastMovementUpdate |-> Undefined]

Connection_server(s, kx, ky) ==
    LET spawn == getRandomSpawnPoint(kx, ky, MAP_WIDTH_server, MAP_HEIGHT_server)
        np == newPlayer_server(s, spawn, nextPlayerId, now)
        ps == Append(players, np)
    IN /\ handshake' = MapSet(handshake, s, 1)
       /\ sockets' = sockets \cup {s}
       /\ players' = ps
       /\ playerCount' = Len(ps)
       /\ nextPlayerId' = nextPlayerId + 1
       /\ emitted' = <<Ev("gameState", "one", s, s, 0, 0, 0, Len(ps)),
                       EvPlayer("playerUpdate", "all", s, np),
                       Ev("playerCountUpdate", "all", s, 0, 0, 0, 0, Len(ps))>>
       /\ recordedAt' = MapSet(recordedAt, s, now)
       /\ step' = Step("connection", s, "created", FALSE)
       /\ UNCHANGED <<program, now, ipConnections, timers>>

\* socket.on('disconnect')
Disconnect_server(s) ==
    LET g == PlayerLeave(Shared, s)
    IN /\ s \in sockets
       /\ sockets' = sockets \ {s}
       /\ players' = g.players
       /\ playerCount' = g.playerCount
       /\ emitted' = g.emitted
       /\ step' = Step("disconnect", s, "", FALSE)
       /\ UNCHANGED <<program, now, handshake, ipConnections, nextPlayerId, timers, recordedAt>>

\* player.lastMovementUpdate || 0
OrZero(v) == IF v = Undefined THEN 0 ELSE v

\* mutant: a move exactly 16 ms after the last accepted one is throttled
PastThrottle_server_strict(p) == now - OrZero(p.lastMovementUpdate) > MoveThrottle_server

\* timeSinceLastUpdate >= 16
PastThrottle_server(p) == now - OrZero(p.lastMovementUpdate) >= MoveThrottle_server

\* if (data.f !== undefined) player.f = data.f
IfDefined(v, old) == IF v = Undefined THEN old ELSE v

\* what a move records of its payload
MoveStep(s, branch, x, y, direction, weaponAngle) ==
    [Step("move", s, branch, FALSE) EXCEPT !.x = x, !.y = y, !.direction = direction,
                                           !.angle = weaponAngle]

\* socket.on('move'), data = {x, y, direction?, weaponAngle?}: throttled,
\* broadcast to the other sockets
Move_server(s, x, y, direction, weaponAngle) ==
    /\ s \in sockets
    /\ UNCHANGED <<program, now, sockets, handshake, ipConnections, playerCount, nextPlayerId, timers>>
    /\ IF CanMove(players, s)
       THEN LET i == IndexOf(players, s)
                p == players[i]
            IN IF PastThrottle_server(p)
               THEN LET q == [p EXCEPT !.x = x, !.y = y,
                                       !.direction = IfDefined(direction, @),
                                       !.weaponAngle = IfDefined(weaponAngle, @),
                                       !.lastActivity = now,
                                       !.lastMovementUpdate = now]
                    IN /\ players' = [players EXCEPT ![i] = q]
                       /\ emitted' = <<EvPlayer("playerUpdate", "others", s, q)>>
                       /\ recordedAt' = MapSet(recordedAt, s, now)
                       /\ step' = MoveStep(s, "accepted", x, y, direction, weaponAngle)
               ELSE /\ emitted' = <<>>
                    /\ step' = MoveStep(s, "throttled", x, y, direction, weaponAngle)
                    /\ UNCHANGED <<players, recordedAt>>
       ELSE /\ emitted' = <<>>
            /\ step' = MoveStep(s, "ignored", x, y, direction, weaponAngle)
            /\ UNCHANGED <<players, recordedAt>>

\* distance <= MELEE_RANGE + playerRadius, and the angle difference, folded
\* once when it exceeds PI, is <= MELEE_ANGLE / 2
InCone_server(a, p, angle) ==
    LET d0 == Abs(Atan2(p.y - a.y, p.x - a.x) - angle)
        d == IF d0 > PI THEN 2 * PI - d0 ELSE d0
    IN /\ SqrtLeq(Dist2(a.x, a.y, p.x, p.y), MELEE_RANGE + PLAYER_RADIUS + HitBuffer_server, 1)
       /\ 2 * d <= MELEE_ANGLE_server

RECURSIVE AttackLoop_server(_, _, _, _, _)
AttackLoop_server(ps, out, s, angle, i) ==
    IF i > Len(ps) THEN [players |-> ps, emitted |-> out]
    ELSE IF Skipped(ps[i], s)
         THEN AttackLoop_server(ps, out, s, angle, i + 1)
    ELSE IF InCone_server(Get(ps, s), ps[i], angle)
         THEN LET r == ApplyHit(ps, out, s, i, MELEE_DAMAGE_server)
              IN AttackLoop_server(r.players, r.emitted, s, angle, i + 1)
    ELSE AttackLoop_server(ps, out, s, angle, i + 1)

\* the guard and the lastActivity refresh every attack listener starts with,
\* then the result r of its loop over the registry
Swing(op, s, angle, r) ==
    /\ players' = r.players
    /\ emitted' = r.emitted
    /\ step' = [Step(op, s, "swing", FALSE) EXCEPT !.angle = angle]

IgnoredSwing(op, s, angle) ==
    /\ emitted' = <<>>
    /\ step' = [Step(op, s, "ignored", FALSE) EXCEPT !.angle = angle]
    /\ UNCHANGED players

Refreshed(s) == [players EXCEPT ![IndexOf(players, s)].lastActivity = now]

\* socket.on('attack'), data = {angle}
Attack_server(s, angle) ==
    /\ s \in sockets
    /\ UNCHANGED <<program, now, sockets, handshake, ipConnections, playerCount, nextPlayerId,
                   timers, recordedAt>>
    /\ IF Has(players, s) /\ Get(players, s).health > 0
       THEN Swing("attack", s, angle, AttackLoop_server(Refreshed(s), <<>>, s, angle, 1))
       ELSE IgnoredSwing("attack", s, angle)

\* mutant: no vertical limit
InArea_server_anyHeight(a, p, direction) ==
    /\ SqrtLeq(Dist2(a.x, a.y, p.x, p.y), MELEE_RANGE + AreaRangeBonus_server, 1)
    /\ \/ direction = 1 /\ p.x - a.x <= 0
       \/ direction = -1 /\ p.x - a.x >= 0

\* distance <= MELEE_RANGE + 30, the target on the attacked side, |dy| <= 80
InArea_server(a, p, direction) ==
    LET dx == p.x - a.x
        dy == p.y - a.y
    IN /\ SqrtLeq(Dist2(a.x, a.y, p.x, p.y), MELEE_RANGE + AreaRangeBonus_server, 1)
       /\ \/ direction = 1 /\ dx <= 0
          \/ direction = -1 /\ dx >= 0
       /\ Abs(dy) <= VerticalRange_server

RECURSIVE AreaAttackLoop_server(_, _, _, _, _)
AreaAttackLoop_server(ps, out, s, direction, i) ==
    IF i > Len(ps) THEN [players |-> ps, emitted |-> out]
    ELSE IF Skipped(ps[i], s)
         THEN AreaAttackLoop_server(ps, out, s, direction, i + 1)
    ELSE IF InArea_server(Get(ps, s), ps[i], direction)
         THEN LET r == ApplyHit(ps, out, s, i, MELEE_DAMAGE_server)
              IN AreaAttackLoop_server(r.players, r.emitted, s, direction, i + 1)
    ELSE AreaAttackLoop_server(ps, out, s, direction, i + 1)

\* socket.on('areaAttack'), data = {direction}
AreaAttack_server(s, direction) ==
    /\ s \in sockets
    /\ UNCHANGED <<program, now, sockets, handshake, ipConnections, playerCount, nextPlayerId,
                   timers, recordedAt>>
    /\ IF Has(players, s) /\ Get(players, s).health > 0
       THEN LET r == AreaAttackLoop_server(Refreshed(s), <<>>, s, direction, 1)
            IN /\ players' = r.players
               /\ emitted' = r.emitted
               /\ step' = [Step("areaAttack", s, "swing", FALSE) EXCEPT !.direction = direction]
       ELSE /\ emitted' = <<>>
            /\ step' = [Step("areaAttack", s, "ignored", FALSE) EXCEPT !.direction = direction]
            /\ UNCHANGED players

\* distance(bat, player) <= batSize / 2 + PLAYER_RADIUS + 10
Collides_server(p, batX, batY, batSize) ==
    SqrtLeq(Dist2(batX, batY, p.x, p.y), batSize + 2 * (PLAYER_RADIUS + HitBuffer_server), 2)

\* mutant: the loop goes on after a hit
RECURSIVE MobileCollisionLoop_server_noBreak(_, _, _, _, _, _, _)
MobileCollisionLoop_server_noBreak(ps, out, s, batX, batY, batSize, i) ==
    IF i > Len(ps) THEN [players |-> ps, emitted |-> out]
    ELSE IF Skipped(ps[i], s) \/ ~Collides_server(ps[i], batX, batY, batSize)
         THEN MobileCollisionLoop_server_noBreak(ps, out, s, batX, batY, batSize, i + 1)
    ELSE LET r == ApplyHit(ps, out, s, i, MELEE_DAMAGE_server)
         IN MobileCollisionLoop_server_noBreak(r.players, r.emitted, s, batX, batY, batSize, i + 1)

\* the loop breaks after the first player it hits
RECURSIVE MobileCollisionLoop_server(_, _, _, _, _, _, _)
MobileCollisionLoop_server(ps, out, s, batX, batY, batSize, i) ==
    IF i > Len(ps) THEN [players |-> ps, emitted |-> out]
    ELSE IF Skipped(ps[i], s)
         THEN MobileCollisionLoop_server(ps, out, s, batX, batY, batSize, i + 1)
    ELSE IF Collides_server(ps[i], batX, batY, batSize)
         THEN ApplyHit(ps, out, s, i, MELEE_DAMAGE_server)
    ELSE MobileCollisionLoop_server(ps, out, s, batX, batY, batSize, i + 1)

\* socket.on('mobileCollisionAttack'), data = {batX, batY, batSize}
MobileCollisionAttack_server(s, batX, batY, batSize) ==
    /\ s \in sockets
    /\ UNCHANGED <<program, now, sockets, handshake, ipConnections, playerCount, nextPlayerId,
                   timers, recordedAt>>
    /\ IF Has(players, s) /\ Get(players, s).health > 0
       THEN Swing("mobileCollisionAttack", s, 0,
                  MobileCollisionLoop_server(Refreshed(s), <<>>, s, batX, batY, batSize, 1))
       ELSE IgnoredSwing("mobileCollisionAttack", s, 0)

\* socket.on('respawn'): the revive is deferred by setTimeout; lastActivity is not refreshed
Respawn_server(s) ==
    /\ s \in sockets
    /\ Has(players, s)
    /\ timers' = Append(timers, [id |-> s, at |-> now + RESPAWN_TIME])
    /\ emitted' = <<>>
    /\ step' = Step("respawn", s, "scheduled", FALSE)
    /\ UNCHANGED <<program, now, sockets, handshake, ipConnections, players, playerCount,
                   nextPlayerId, recordedAt>>

\* socket.on('attackAnimation'), data = {angle, timestamp}: relayed to the
\* other sockets, whether or not the sender has a Player record
AttackAnimation_server(s, angle) ==
    /\ s \in sockets
    /\ emitted' = <<Ev("attackAnimation", "others", s, s, 0, 0, 0, 0)>>
    /\ step' = [Step("attackAnimation", s, "relayed", FALSE) EXCEPT !.angle = angle]
    /\ UNCHANGED <<program, now, sockets, handshake, ipConnections, players, playerCount,
                   nextPlayerId, timers, recordedAt>>

-----------------------------------------------------------------------------
(* server.js: the same listeners when the client emits the event with no    *)
(* argument, so that data is undefined.  Reading a property of undefined    *)
(* throws a TypeError; no listener catches it and the process installs no   *)
(* uncaughtException handler.                                               *)

\* what is recorded of a listener that was called without data
NoDataStep(op, s, branch) == [Step(op, s, branch, FALSE) EXCEPT !.data = FALSE]

\* the living players other than s within range of s, the first of which makes
\* the loop read data.angle or data.direction
InReach(ps, s, range) ==
    {i \in 1..Len(ps) : /\ ~Skipped(ps[i], s)
                        /\ SqrtLeq(Dist2(Get(ps, s).x, Get(ps, s).y, ps[i].x, ps[i].y), range, 1)}

\* socket.on('move'): player.x = data.x throws once the guards are passed
Move_server_noData(s) ==
    /\ s \in sockets
    /\ emitted' = <<>>
    /\ step' = NoDataStep("move", s,
                          IF ~(Has(players, s) /\ Get(players, s).health > 0) THEN "ignored"
                          ELSE IF PastThrottle_server(Get(players, s)) THEN "TypeError"
                          ELSE "throttled")
    /\ UNCHANGED <<program, now, sockets, handshake, ipConnections, players, playerCount,
                   nextPlayerId, timers, recordedAt>>

\* a loop that reads a property of data at the first living player in range:
\* lastActivity is already refreshed when it throws
SwingNoData(op, s, range) ==
    /\ s \in sockets
    /\ emitted' = <<>>
    /\ UNCHANGED <<program, now, sockets, handshake, ipConnections, playerCount, nextPlayerId,
                   timers, recordedAt>>
    /\ IF Has(players, s) /\ Get(players, s).health > 0
       THEN /\ players' = Refreshed(s)
            /\ step' = NoDataStep(op, s, IF InReach(players, s, range) # {} THEN "TypeError"
                                         ELSE "swing")
       ELSE /\ step' = NoDataStep(op, s, "ignored")
            /\ UNCHANGED players

\* socket.on('attack'): Math.abs(angleToPlayer - data.angle) throws
Attack_server_noData(s) ==
    SwingNoData("attack", s, MELEE_RANGE + PLAYER_RADIUS + HitBuffer_server)

\* socket.on('areaAttack'): data.direction === 1 throws
AreaAttack_server_noData(s) ==
    SwingNoData("areaAttack", s, MELEE_RANGE + AreaRangeBonus_server)

\* socket.on('mobileCollisionAttack'): data.batSize / 2 throws before the loop
MobileCollisionAttack_server_noData(s) ==
    /\ s \in sockets
    /\ emitted' = <<>>
    /\ UNCHANGED <<program, now, sockets, handshake, ipConnections, playerCount, nextPlayerId,
                   timers, recordedAt>>
    /\ IF Has(players, s) /\ Get(players, s).health > 0
       THEN /\ players' = Refreshed(s)
            /\ step' = NoDataStep("mobileCollisionAttack", s, "TypeError")
       ELSE /\ step' = NoDataStep("mobileCollisionAttack", s, "ignored")
            /\ UNCHANGED players

\* socket.on('attackAnimation'): angle: data.angle throws, in every state
AttackAnimation_server_noData(s) ==
    /\ s \in sockets
    /\ emitted' = <<>>
    /\ step' = NoDataStep("attackAnimation", s, "TypeError")
    /\ UNCHANGED <<program, now, sockets, handshake, ipConnections, players, playerCount,
                   nextPlayerId, timers, recordedAt>>

-----------------------------------------------------------------------------
(* The clock.  A pending timer fires when it is due: time does not pass it. *)

Tick(d, limit) ==
    /\ d > 0
    /\ now + d <= StartTime + limit
    /\ timers # <<>> => now + d <= Head(timers).at
    /\ now' = now + d
    /\ emitted' = <<>>
    /\ step' = Step("tick", 0, "", FALSE)
    /\ UNCHANGED <<program, sockets, handshake, ipConnections, players, playerCount, nextPlayerId,
                   timers, recordedAt>>

-----------------------------------------------------------------------------
(* Initial state of a freshly started server *)

NoStep == Step("init", 0, "", FALSE)

Started(prog) ==
    /\ program = prog
    /\ now = StartTime
    /\ sockets = {}
    /\ handshake = <<>>
    /\ ipConnections = <<>>
    /\ players = <<>>
    /\ playerCount = 0
    /\ nextPlayerId = 1
    /\ timers = <<>>
    /\ emitted = <<>>
    /\ step = NoStep
    /\ recordedAt = <<>>

\* the id the transport gives the next socket
NextSocketId == Cardinality(DOMAIN handshake) + 1

TimerDue == IF timers = <<>> THEN {} ELSE {Head(timers).at - now}

-----------------------------------------------------------------------------
(* part_001, admission: connections from two addresses, closes and sweeps *)

Addresses == {1, 2}

InitAdmission == Started("part_001")

NextAdmission ==
    \/ \E ip \in Addresses, connected \in BOOLEAN :
          /\ NextSocketId <= MaxSockets
          /\ Connection_part001(NextSocketId, ip, connected, 0, 0)
    \/ \E s \in sockets : Disconnect_part001(s)
    \/ cleanupDisconnectedPlayers
    \/ InactivitySweep_part001
    \/ GameLoop_part001
    \/ Tick(SweepTick, SweepTick)

SpecAdmission == InitAdmission /\ [][NextAdmission]_vars

-----------------------------------------------------------------------------
(* part_001, duplicate identity: the registry holds the players of live      *)
(* sockets, and the transport delivers connections under any identity, one   *)
(* that already has a Player record included                                 *)

RegistryIds == {1, 2}

RegistryOrders == {<<>>, <<1>>, <<2>>, <<1, 2>>, <<2, 1>>}

InitCreate ==
    /\ program = "part_001"
    /\ now = StartTime
    /\ \E order \in RegistryOrders, hs \in [RegistryIds -> {100, 50}] :
          /\ players = [i \in 1..Len(order) |->
                          [newPlayer_part001(order[i], getRandomSpawnPoint(0, 0,
                               MAP_WIDTH_part001, MAP_HEIGHT_part001), order[i], StartTime)
                             EXCEPT !.health = hs[order[i]]]]
          /\ sockets = {order[i] : i \in 1..Len(order)}
    /\ handshake = [c \in sockets |-> 1]
    /\ ipConnections = IF sockets = {} THEN <<>> ELSE [ip \in {1} |-> sockets]
    /\ playerCount = Len(players)
    /\ nextPlayerId = 3
    /\ timers = <<>>
    /\ emitted = <<>>
    /\ step = NoStep
    /\ recordedAt = [c \in sockets |-> StartTime]

NextCreate ==
    \/ \E s \in RegistryIds \cup {3}, ip \in Addresses, connected \in BOOLEAN :
          /\ nextPlayerId < MaxPlayerNumber
          /\ Connection_part001(s, ip, connected, 0, 0)
    \/ \E s \in sockets : Disconnect_part001(s)

SpecCreate == InitCreate /\ [][NextCreate]_vars

-----------------------------------------------------------------------------
(* part_001, movement: the players of one address move, attack and ping      *)
(* while the clock advances in steps of one and two seconds                  *)

MoveTargets_part001 == {<<125, 100>>, <<150, 100>>}

ClientStamps == {Undefined, 50000}

MoveTicks == {1000, 2000}

InitMove == Started("part_001")

NextMove ==
    \/ /\ NextSocketId <= MaxPlayers
       /\ Connection_part001(NextSocketId, 1, TRUE, 0, 0)
    \/ \E s \in sockets : Disconnect_part001(s)
    \/ \E s \in sockets, xy \in MoveTargets_part001, ts \in ClientStamps :
          Move_part001(s, xy[1], xy[2], ts)
    \/ \E s \in sockets : Attack_part001(s, 0)
    \/ \E s \in sockets : Ping_part001(s)
    \/ \E d \in MoveTicks : Tick(d, MoveElapsed)

SpecMove == InitMove /\ [][NextMove]_vars

-----------------------------------------------------------------------------
(* Both servers, combat: players spawn on four points within reach of each   *)
(* other, swing, die, ask for respawn and are revived.                       *)

Programs == {"server", "part_001"}

\* Math.random() draws (kx, ky) that spawn at (130,115), (100,100), (100,130)
SpawnDraws_server == {<<30, 23>>, <<0, 0>>, <<0, 46>>}

SpawnDraws_part001 == {<<138, 115>>, <<0, 0>>, <<0, 230>>}

\* the draws of a revive: (145,130), and the largest draw, the far corner of the map
LastDraw == RandDen - 1

RespawnDraws_server == {<<45, 46>>, <<LastDraw, LastDraw>>}

RespawnDraws_part001 == {<<207, 230>>, <<LastDraw, LastDraw>>}

\* data.angle of an attack
AimAngles == {0, PI}

\* data.direction of an areaAttack
AreaDirections == {1, -1}

\* data.batX, data.batY, data.batSize of a mobileCollisionAttack
BatX == 100
BatY == 100
BatSize == 40

\* a respawn request is taken while its timer fits the scenario
Schedulable == Len(timers) < MaxTimers /\ now + RESPAWN_TIME <= StartTime + CombatElapsed

InitCombat == \E prog \in Programs : Started(prog)

Connect_server == program = "server" /\ NextSocketId <= MaxPlayers

Connect_part001 == program = "part_001" /\ NextSocketId <= MaxPlayers

NextCombat ==
    \/ \E d \in SpawnDraws_server :
          Connect_server /\ Connection_server(NextSocketId, d[1], d[2])
    \/ \E d \in SpawnDraws_part001 :
          Connect_part001 /\ Connection_part001(NextSocketId, 1, TRUE, d[1], d[2])
    \/ \E s \in sockets, angle \in AimAngles : program = "server" /\ Attack_server(s, angle)
    \/ \E s \in sockets, angle \in AimAngles : program = "part_001" /\ Attack_part001(s, angle)
    \/ \E s \in sockets, direction \in AreaDirections :
          program = "server" /\ AreaAttack_server(s, direction)
    \/ \E s \in sockets :
          program = "server" /\ MobileCollisionAttack_server(s, BatX, BatY, BatSize)
    \/ \E s \in sockets :
          program = "server" /\ Schedulable /\ Respawn_server(s)
    \/ \E s \in sockets :
          program = "part_001" /\ Schedulable /\ Respawn_part001(s)
    \/ \E d \in RespawnDraws_server :
          program = "server" /\ RespawnTimeout(d[1], d[2], MAP_WIDTH_server, MAP_HEIGHT_server)
    \/ \E d \in RespawnDraws_part001 :
          program = "part_001"
          /\ RespawnTimeout(d[1], d[2], MAP_WIDTH_part001, MAP_HEIGHT_part001)
    \/ \E d \in TimerDue : Tick(d, CombatElapsed)

SpecCombat == InitCombat /\ [][NextCombat]_vars

-----------------------------------------------------------------------------
(* Both servers, pending revives: players ask for respawn and leave (close,  *)
(* address reset, inactivity sweep) before or after the timer fires.         *)

\* the move payload of the scenario: stand still and report a client
\* timestamp in the past
StandStill == <<100, 100>>

OldStamp == 50000

NextRespawn ==
    \/ /\ program = "server"
       /\ NextSocketId <= MaxPlayers
       /\ Connection_server(NextSocketId, 0, 0)
    \/ /\ program = "part_001"
       /\ NextSocketId <= MaxSockets
       /\ Connection_part001(NextSocketId, 1, TRUE, 0, 0)
    \/ \E s \in sockets : program = "server" /\ Disconnect_server(s)
    \/ \E s \in sockets : program = "part_001" /\ Disconnect_part001(s)
    \/ \E s \in sockets : program = "server" /\ Schedulable /\ Respawn_server(s)
    \/ \E s \in sockets : program = "part_001" /\ Schedulable /\ Respawn_part001(s)
    \/ program = "server" /\ RespawnTimeout(0, 0, MAP_WIDTH_server, MAP_HEIGHT_server)
    \/ program = "part_001" /\ RespawnTimeout(0, 0, MAP_WIDTH_part001, MAP_HEIGHT_part001)
    \/ \E s \in sockets :
          program = "part_001" /\ Move_part001(s, StandStill[1], StandStill[2], OldStamp)
    \/ program = "part_001" /\ InactivitySweep_part001
    \/ \E d \in TimerDue : Tick(d, CombatElapsed)

SpecRespawn == InitCombat /\ [][NextRespawn]_vars

-----------------------------------------------------------------------------
(* part_001, inactivity: players idle, ping, or report old timestamps, and   *)
(* the periodic sweeps run.                                                  *)

InitSweep == Started("part_001")

NextSweep ==
    \/ /\ NextSocketId <= MaxPlayers
       /\ Connection_part001(NextSocketId, 1, TRUE, 0, 0)
    \/ \E s \in sockets : Disconnect_part001(s)
    \/ \E s \in sockets, ts \in ClientStamps :
          Move_part001(s, StandStill[1], StandStill[2], ts)
    \/ \E s \in sockets : Ping_part001(s)
    \/ cleanupDisconnectedPlayers
    \/ InactivitySweep_part001
    \/ GameLoop_part001
    \/ Tick(SweepTick, SweepTick)

SpecSweep == InitSweep /\ [][NextSweep]_vars

-----------------------------------------------------------------------------
(* part_001, reconciliation: the duplicate-identity scenario with the        *)
(* periodic sweeps, which find the records a duplicate connection leaves     *)
(* without a socket.                                                         *)

NextReconcile ==
    \/ \E s \in RegistryIds \cup {3}, ip \in Addresses, connected \in BOOLEAN :
          /\ nextPlayerId < MaxPlayerNumber
          /\ Connection_part001(s, ip, connected, 0, 0)
    \/ \E s \in sockets : Disconnect_part001(s)
    \/ cleanupDisconnectedPlayers
    \/ InactivitySweep_part001
    \/ GameLoop_part001

SpecReconcile == InitCreate /\ [][NextReconcile]_vars

-----------------------------------------------------------------------------
(* part_001, stale state: a freshly started server to which the transport    *)
(* delivers connections under two identities, each possibly more than once   *)
(* and possibly already closed, while the two 5 s timers run.                *)

NextStale ==
    \/ \E s \in RegistryIds, ip \in Addresses, connected \in BOOLEAN :
          /\ nextPlayerId < MaxPlayerNumber
          /\ Connection_part001(s, ip, connected, 0, 0)
    \/ \E s \in sockets : Disconnect_part001(s)
    \/ cleanupDisconnectedPlayers
    \/ InactivitySweep_part001

SpecStale == Started("part_001") /\ [][NextStale]_vars

\* setInterval runs cleanupDisconnectedPlayers and the sweep every 5 s for as
\* long as the process lives: neither is postponed forever
FairStale ==
    /\ SpecStale
    /\ WF_vars(cleanupDisconnectedPlayers)
    /\ WF_vars(InactivitySweep_part001)

-----------------------------------------------------------------------------
(* server.js, swings: three players spawn on four points, some within reach  *)
(* of each other, some beyond the range or the lane, and swing in the three  *)
(* ways until they are dead.                                                 *)

\* sockets the transport issues in this scenario
SwingPlayers == MaxPlayers + 1

\* Math.random() draws (kx, ky) that spawn at (100,100), (130,115), (100,190), (230,115)
SwingDraws_server == {<<0, 0>>, <<30, 23>>, <<0, 138>>, <<130, 23>>}

\* data.direction of an areaAttack: left, right, and a value that is neither
LaneDirections == {1, -1, 0}

NextSwing ==
    \/ \E d \in SwingDraws_server :
          /\ NextSocketId <= SwingPlayers
          /\ Connection_server(NextSocketId, d[1], d[2])
    \/ \E s \in sockets, angle \in AimAngles : Attack_server(s, angle)
    \/ \E s \in sockets, direction \in LaneDirections : AreaAttack_server(s, direction)
    \/ \E s \in sockets : MobileCollisionAttack_server(s, BatX, BatY, BatSize)

SpecSwing == Started("server") /\ [][NextSwing]_vars

-----------------------------------------------------------------------------
(* server.js, throttle: two players move, with and without the optional      *)
(* fields, while the clock advances by 1 and by 15 ms.                       *)

ThrottleElapsed == 17   \* the clock of the throttle scenario stops this long after StartTime

ThrottleTicks == {15, 1}

\* data of a move: {x, y} and {x, y, direction, weaponAngle}
MovePayloads_server == {<<125, 100, Undefined, Undefined>>, <<150, 100, -1, 9000>>}

NextThrottle ==
    \/ /\ NextSocketId <= MaxPlayers
       /\ Connection_server(NextSocketId, 0, 0)
    \/ \E s \in sockets, d \in MovePayloads_server : Move_server(s, d[1], d[2], d[3], d[4])
    \/ \E d \in ThrottleTicks : Tick(d, ThrottleElapsed)

SpecThrottle == Started("server") /\ [][NextThrottle]_vars

-----------------------------------------------------------------------------
(* server.js, payloads: two players emit every event with and without a     *)
(* data object.  After an uncaught exception the process is gone and handles *)
(* nothing more.                                                             *)

Running == step.branch # "TypeError"

NextPayload ==
    \/ \E d \in SpawnDraws_server :
          /\ Running
          /\ NextSocketId <= MaxPlayers
          /\ Connection_server(NextSocketId, d[1], d[2])
    \/ \E s \in sockets : Running /\ Disconnect_server(s)
    \/ \E s \in sockets, d \in MovePayloads_server :
          Running /\ Move_server(s, d[1], d[2], d[3], d[4])
    \/ \E s \in sockets : Running /\ Move_server_noData(s)
    \/ \E s \in sockets, angle \in AimAngles : Running /\ Attack_server(s, angle)
    \/ \E s \in sockets : Running /\ Attack_server_noData(s)
    \/ \E s \in sockets, direction \in AreaDirections :
          Running /\ AreaAttack_server(s, direction)
    \/ \E s \in sockets : Running /\ AreaAttack_server_noData(s)
    \/ \E s \in sockets :
          Running /\ MobileCollisionAttack_server(s, BatX, BatY, BatSize)
    \/ \E s \in sockets : Running /\ MobileCollisionAttack_server_noData(s)
    \/ \E s \in sockets, angle \in AimAngles : Running /\ AttackAnimation_server(s, angle)
    \/ \E s \in sockets : Running /\ AttackAnimation_server_noData(s)

SpecPayload == Started("server") /\ [][NextPayload]_vars

-----------------------------------------------------------------------------
(* Both servers, death: two players spawn on one point, move, hit each other *)
(* until one is dead, and the dead go on sending moves and attacks until a   *)
(* respawn timer revives them at (145,130).                                  *)

\* the draw of a revive that relocates to (145,130)
ReviveDraw_server == <<45, 46>>

ReviveDraw_part001 == <<207, 230>>

NextDeath ==
    \/ Connect_server /\ Connection_server(NextSocketId, 0, 0)
    \/ Connect_part001 /\ Connection_part001(NextSocketId, 1, TRUE, 0, 0)
    \/ \E s \in sockets, d \in MovePayloads_server :
          program = "server" /\ Move_server(s, d[1], d[2], d[3], d[4])
    \/ \E s \in sockets, xy \in MoveTargets_part001 :
          program = "part_001" /\ Move_part001(s, xy[1], xy[2], Undefined)
    \/ \E s \in sockets :
          program = "server" /\ MobileCollisionAttack_server(s, BatX, BatY, BatSize)
    \/ \E s \in sockets, angle \in AimAngles : program = "part_001" /\ Attack_part001(s, angle)
    \/ \E s \in sockets : program = "server" /\ Schedulable /\ Respawn_server(s)
    \/ \E s \in sockets : program = "part_001" /\ Schedulable /\ Respawn_part001(s)
    \/ /\ program = "server"
       /\ RespawnTimeout(ReviveDraw_server[1], ReviveDraw_server[2],
                         MAP_WIDTH_server, MAP_HEIGHT_server)
    \/ /\ program = "part_001"
       /\ RespawnTimeout(ReviveDraw_part001[1], ReviveDraw_part001[2],
                         MAP_WIDTH_part001, MAP_HEIGHT_part001)
    \/ \E d \in TimerDue : Tick(d, CombatElapsed)

SpecDeath == InitCombat /\ [][NextDeath]_vars

-----------------------------------------------------------------------------
(* Admission properties *)

\* C1: for every address, the admission table entry never holds more than
\* MAX_CONNECTIONS_PER_IP connection identities.
C1_AdmissionCap ==
    \A ip \in DOMAIN ipConnections :
        Cardinality(ipConnections[ip]) <= MAX_CONNECTIONS_PER_IP

\* the cap is attained: an address holds MAX_CONNECTIONS_PER_IP identities
\* right after a connection from it was admitted
C1_Witness ==
    /\ step.op = "connection"
    /\ handshake[step.sock] \in DOMAIN ipConnections
    /\ Cardinality(ipConnections[handshake[step.sock]]) = MAX_CONNECTIONS_PER_IP

\* C2: a connection from an address whose live identities already number
\* MAX_CONNECTIONS_PER_IP evicts every identity admitted for the address (its
\* transport is closed, its Player record and its table entry are gone) and
\* leaves exactly the new identity in the address's set.
C2_FullAddressIsReset ==
    [][\A ip \in Addresses :
          ( /\ step'.op = "connection"
            /\ step'.sock \notin DOMAIN handshake
            /\ handshake'[step'.sock] = ip
            /\ ip \in DOMAIN ipConnections
            /\ Cardinality(ipConnections[ip] \cap sockets) >= MAX_CONNECTIONS_PER_IP )
          => /\ ipConnections'[ip] = {step'.sock}
             /\ \A c \in ipConnections[ip] :
                   /\ c \notin sockets'
                   /\ ~Has(players', c)
                   /\ \A a \in DOMAIN ipConnections' : c \notin ipConnections'[a]]_vars

\* a connection has just reset a full address: its three players left
C2_Witness ==
    /\ step.op = "connection"
    /\ step.forced
    /\ CountType(emitted, "playerLeft") = MAX_CONNECTIONS_PER_IP
    /\ ipConnections[handshake[step.sock]] = {step.sock}

-----------------------------------------------------------------------------
(* Registry properties *)

\* C3: creating a player for a connection identity that is already in the
\* registry has no effect: the Player records, the player count and the
\* display-number counter are as they were.
C3_DuplicateCreateHasNoEffect ==
    [][(step'.op = "connection" /\ step'.branch = "duplicate")
          => /\ players' = players
             /\ playerCount' = playerCount
             /\ nextPlayerId' = nextPlayerId]_vars

-----------------------------------------------------------------------------
(* Movement properties (part_001) *)

\* the living player whose move payload the step from this state handles
MoverBefore == Get(players, step'.sock)

MoveOfLivingPlayer ==
    /\ step'.op = "move"
    /\ Has(players, step'.sock)
    /\ MoverBefore.health > 0

\* distance(P, requested) <= 15 * (now - since) / 1000 + 20
WithinSpeedBound(since) ==
    SqrtLeq(Dist2(MoverBefore.x, MoverBefore.y, step'.x, step'.y),
            3 * (now - since) + 4000, 200)

\* C4 as stated: a move of a living player is accepted iff the requested
\* position is within 15 units per second plus 20 units of the last accepted
\* position P, the time being measured from the moment T at which P was
\* recorded.
C4_AcceptedIffWithinBoundSincePosition ==
    [][MoveOfLivingPlayer
          => (step'.branch = "accepted" <=> WithinSpeedBound(recordedAt[step'.sock]))]_vars

\* C4 amended: the time is measured from the player's lastActivity, which every
\* accepted move, attack, respawn request and ping refreshes; the move is
\* accepted iff distance <= 15 * (now - lastActivity) / 1000 + 20, and an
\* accepted move stores the requested position.
C4_AcceptedIffWithinBoundSinceActivity ==
    [][MoveOfLivingPlayer
          => /\ step'.branch = "accepted" <=> WithinSpeedBound(MoverBefore.lastActivity)
             /\ step'.branch = "accepted" =>
                   /\ Get(players', step'.sock).x = step'.x
                   /\ Get(players', step'.sock).y = step'.y]_vars

\* a move was accepted that only the time elapsed since lastActivity allows
\* (more than the 20 unit buffer), and another was rejected
C4_Witness ==
    /\ step.op = "move"
    /\ step.branch = "accepted"
    /\ \E e \in {emitted[i] : i \in 1..Len(emitted)} : e.x = 150 /\ e.type = "playerUpdate"
    /\ now = StartTime + 2000

\* C5: a move that fails the speed check leaves every Player record as it was
\* and emits exactly one event: a serverCorrection to the requesting socket
\* only, carrying the stored position; no playerUpdate is emitted.
C5_RejectedMoveOnlyCorrects ==
    [][(MoveOfLivingPlayer /\ ~WithinSpeedBound(MoverBefore.lastActivity))
          => /\ players' = players
             /\ Len(emitted') = 1
             /\ emitted'[1].type = "serverCorrection"
             /\ emitted'[1].to = "one"
             /\ emitted'[1].sock = step'.sock
             /\ emitted'[1].x = MoverBefore.x
             /\ emitted'[1].y = MoverBefore.y]_vars

\* a move has just been rejected and corrected
C5_Witness ==
    /\ step.op = "move"
    /\ step.branch = "rejected"
    /\ CountType(emitted, "serverCorrection") = 1
    /\ Has(players, step.sock)
    /\ (Get(players, step.sock).x # step.x \/ Get(players, step.sock).y # step.y)

-----------------------------------------------------------------------------
(* Combat properties (server.js and part_001) *)

AttackOps == {"attack", "areaAttack", "mobileCollisionAttack"}

\* the players whose record the step keeps
Staying == Ids(players) \cap Ids(players')

\* the players whose health the step brings from above 0 to 0 or less
Dying == {id \in Staying : Get(players, id).health > 0 /\ Get(players', id).health <= 0}

\* C6: a hit that brings a target's health to 0 or less emits exactly one
\* playerKilled for that target and raises the attacker's kills by exactly 1
\* (nobody else's kills change); a target whose health is 0 or less keeps it
\* and gets no playerHit and no playerKilled from attack, areaAttack or
\* mobileCollisionAttack, until the respawn timer revives it.
C6_OneKillPerDeathAndDeadStayDead ==
    [][/\ \A id \in Dying :
             /\ step'.op \in AttackOps
             /\ step'.sock # id
             /\ Count(emitted', "playerKilled", id) = 1
       /\ CountType(emitted', "playerKilled") = Cardinality(Dying)
       /\ \A id \in Staying :
             Get(players', id).kills = Get(players, id).kills
                + (IF step'.op \in AttackOps /\ step'.sock = id THEN Cardinality(Dying) ELSE 0)
       /\ \A id \in Staying :
             Get(players, id).health <= 0
                => \/ /\ Get(players', id).health = Get(players, id).health
                      /\ Count(emitted', "playerHit", id) = 0
                      /\ Count(emitted', "playerKilled", id) = 0
                   \/ /\ step'.op = "timeout"
                      /\ step'.sock = id
                      /\ step'.branch = "revived"]_vars

\* a swing has just killed a player: one playerKilled, the victim at 0 or less,
\* the attacker credited
C6_Witness ==
    /\ step.op \in AttackOps
    /\ step.branch = "swing"
    /\ CountType(emitted, "playerKilled") = 1
    /\ \E i \in 1..Len(players) :
          /\ players[i].health <= 0
          /\ Count(emitted, "playerKilled", players[i].id) = 1
    /\ Has(players, step.sock)
    /\ Get(players, step.sock).kills >= 1

MapWidth == IF program = "server" THEN MAP_WIDTH_server ELSE MAP_WIDTH_part001

MapHeight == IF program = "server" THEN MAP_HEIGHT_server ELSE MAP_HEIGHT_part001

\* C7: a respawn request of a player in the registry schedules exactly one
\* revive, due RESPAWN_TIME after the request; when that revive fires for a
\* player still in the registry it broadcasts exactly one playerRespawned for
\* that player, whose health is then maxHealth and whose position lies in
\* [margin, width - margin] x [margin, height - margin].
C7_RespawnRevivesOnceAfterDelay ==
    [][/\ step'.op = "respawn"
          => /\ Has(players, step'.sock)
             /\ timers' = Append(timers, [id |-> step'.sock, at |-> now + RESPAWN_TIME])
       /\ (step'.op = "timeout" /\ Has(players, Head(timers).id))
          => LET id == Head(timers).id
                 q == Get(players', id)
             IN /\ now = Head(timers).at
                /\ timers' = Tail(timers)
                /\ Len(emitted') = 1
                /\ emitted'[1].type = "playerRespawned"
                /\ emitted'[1].to = "all"
                /\ emitted'[1].pid = id
                /\ q.health = q.maxHealth
                /\ emitted'[1].health = q.maxHealth
                /\ Margin <= q.x /\ q.x <= MapWidth - Margin
                /\ Margin <= q.y /\ q.y <= MapHeight - Margin
                /\ emitted'[1].x = q.x /\ emitted'[1].y = q.y]_vars

\* a player killed by another has just been revived with full health
C7_Witness ==
    /\ step.op = "timeout"
    /\ step.branch = "revived"
    /\ CountType(emitted, "playerRespawned") = 1
    /\ Has(players, step.sock)
    /\ Get(players, step.sock).health = Get(players, step.sock).maxHealth
    /\ \E i \in 1..Len(players) : players[i].id # step.sock /\ players[i].kills >= 1
    /\ now = StartTime + RESPAWN_TIME

\* the angular difference of two angles, normalized into [0, PI]
NormalizedDiff(a, b) ==
    LET d == (a - b) % (2 * PI)
    IN IF d > PI THEN 2 * PI - d ELSE d

MeleeAngle == IF program = "server" THEN MELEE_ANGLE_server ELSE MELEE_ANGLE_part001

\* C10: in a cone attack a living target other than the attacker within
\* MELEE_RANGE is hit iff the difference between the bearing from the attacker
\* to the target and the aim angle, normalized into [0, PI], is at most half
\* the melee cone angle (boundary included), which makes the result the same
\* for targets at bearing +t and -t from the aim.
C10_ConeHitIffNormalizedDiffWithinHalfAngle ==
    [][(step'.op = "attack" /\ step'.branch = "swing")
          => LET a == Get(players, step'.sock)
             IN \A i \in 1..Len(players) :
                   LET p == players[i]
                   IN (/\ p.id # a.id
                       /\ p.health > 0
                       /\ Dist2(a.x, a.y, p.x, p.y) <= Sq(MELEE_RANGE))
                      => (Count(emitted', "playerHit", p.id) = 1
                          <=> 2 * NormalizedDiff(Atan2(p.y - a.y, p.x - a.x), step'.angle)
                                 <= MeleeAngle)]_vars

-----------------------------------------------------------------------------
(* Deferred revive and sweep properties *)

\* C8: when the respawn timer of a player fires after the player's record has
\* left the registry (close, address reset or sweep), nothing happens: no
\* playerRespawned is emitted and no record is created or changed.  The
\* record was there when the request was taken; its presence is tested when
\* the timer fires.
C8_ReviveOfRemovedPlayerIsNoOp ==
    [][/\ step'.op = "respawn" => Has(players, step'.sock)
       /\ (timers # <<>> /\ step'.op = "timeout" /\ ~Has(players, Head(timers).id))
          => /\ players' = players
             /\ playerCount' = playerCount
             /\ emitted' = <<>>
             /\ timers' = Tail(timers)]_vars

\* a respawn timer has just fired for a player that is no longer in the registry
C8_Witness ==
    /\ step.op = "timeout"
    /\ step.branch = "noop"
    /\ ~Has(players, step.sock)
    /\ step.sock \in DOMAIN recordedAt
    /\ emitted = <<>>

\* the players of the registry idle for longer than timeout
IdleFor(timeout) ==
    {players[i].id : i \in {j \in 1..Len(players) : now - players[j].lastActivity > timeout}}

PlayerLeftFor(evs, ids) == {i \in 1..Len(evs) : evs[i].type = "playerLeft" /\ evs[i].pid \in ids}

\* C9: a sweep removes every player whose lastActivity is older than its
\* inactivity timeout (15 s for the 5 s sweep, 30 s for the game loop) and
\* broadcasts exactly one playerLeft carrying that player's id; the 5 s sweep
\* then broadcasts exactly one playerCountUpdate, with the new size of the
\* registry, and the game loop exactly one playerCountUpdate after each
\* playerLeft.
C9_SweepRemovesInactivePlayers ==
    [][/\ step'.op = "sweep"
          => LET idle == IdleFor(InactivityTimeout_part001)
             IN /\ idle \cap Ids(players') = {}
                /\ \A id \in idle : Count(emitted', "playerLeft", id) = 1
                /\ idle # {}
                   => /\ CountType(emitted', "playerCountUpdate") = 1
                      /\ emitted'[Len(emitted')] = EvPlayerCountUpdate(Len(players'))
                      /\ playerCount' = Len(players')
       /\ step'.op = "gameLoop"
          => LET idle == IdleFor(GameLoopTimeout_part001)
             IN /\ Ids(players') = Ids(players) \ idle
                /\ \A id \in idle : Count(emitted', "playerLeft", id) = 1
                /\ Len(emitted') = 2 * Cardinality(idle)
                /\ \A i \in PlayerLeftFor(emitted', idle) :
                      /\ i < Len(emitted')
                      /\ emitted'[i + 1].type = "playerCountUpdate"
                /\ idle # {} => playerCount' = Len(players')]_vars

\* the 5 s sweep has just removed a player that was connected but idle
C9_Witness ==
    /\ step.op = "sweep"
    /\ CountType(emitted, "playerLeft") = 1
    /\ CountType(emitted, "playerCountUpdate") = 1
    /\ \E s \in sockets : ~Has(players, s) /\ Count(emitted, "playerLeft", s) = 1

-----------------------------------------------------------------------------
(* Registry properties, continued *)

\* C11: between handlers a Player record exists for an identity iff that
\* identity's connection is live: the ids of the registry are the ids of the
\* live sockets.
C11_RecordIffConnectionLive == Ids(players) = sockets

\* the ids whose record the step removes
Removed == Ids(players) \ Ids(players')

\* the positions of the playerCountUpdate events in a handler's output
CountUpdates(evs) == {i \in 1..Len(evs) : evs[i].type = "playerCountUpdate"}

\* C12: every removal of a Player record, by whatever path, comes with one
\* playerLeft for that identity and with a playerCountUpdate carrying the size
\* of the registry after the removal.
C12_EveryRemovalIsBroadcast ==
    [][Removed # {}
          => /\ \A id \in Removed : Count(emitted', "playerLeft", id) = 1
             /\ \E i \in CountUpdates(emitted') :
                   /\ emitted'[i].n = Len(players')
                   /\ emitted'[i].to = "all"]_vars

\* C13: after every handler, timer callback and sweep, playerCount is the
\* number of records in the registry, and the last playerCountUpdate the
\* handler broadcast carries that number.
C13_PlayerCountIsRegistrySize ==
    /\ playerCount = Len(players)
    /\ \A i \in CountUpdates(emitted) :
          (\A j \in CountUpdates(emitted) : j <= i) => emitted[i].n = Len(players)

-----------------------------------------------------------------------------
(* Swing properties (server.js) *)

\* a swing of a living attacker has just been handled
SwingStep == step'.op \in AttackOps /\ step'.branch = "swing"

\* the positions of the playerHit events in a handler's output
Hits(evs) == {i \in 1..Len(evs) : evs[i].type = "playerHit"}

\* the players a handler's output reports as hit
HitIds(evs) == {evs[i].pid : i \in Hits(evs)}

\* C14: each hit subtracts exactly MELEE_DAMAGE from the target's health and
\* from nobody else's, and broadcasts to all connections one playerHit whose
\* playerId is the target and whose health is the target's health after the
\* subtraction.
C14_HitSubtractsDamageAndBroadcasts ==
    [][SwingStep
          => /\ \A id \in Ids(players) :
                   /\ Count(emitted', "playerHit", id) <= 1
                   /\ Get(players', id).health
                         = Get(players, id).health
                              - MELEE_DAMAGE_server * Count(emitted', "playerHit", id)
             /\ \A i \in Hits(emitted') :
                   /\ emitted'[i].to = "all"
                   /\ Has(players, emitted'[i].pid)
                   /\ emitted'[i].health = Get(players', emitted'[i].pid).health
                   /\ emitted'[i].x = Get(players, emitted'[i].pid).x
                   /\ emitted'[i].y = Get(players, emitted'[i].pid).y]_vars

\* a swing has just hit two players at once, one of them for the second time
C14_Witness ==
    /\ step.op \in AttackOps
    /\ step.branch = "swing"
    /\ Cardinality(HitIds(emitted)) = 2
    /\ \E id \in HitIds(emitted) : Get(players, id).health = 100 - 2 * MELEE_DAMAGE_server
    /\ \E id \in Ids(players) \ HitIds(emitted) : Get(players, id).health = 100

\* C15: no attack, areaAttack or mobileCollisionAttack damages the attacker
\* or a player whose health is already 0 or less, and neither gets a playerHit.
C15_NoSelfHitNoHitOnDead ==
    [][SwingStep
          => \A id \in Ids(players) :
                (id = step'.sock \/ Get(players, id).health <= 0)
                   => /\ Get(players', id).health = Get(players, id).health
                      /\ id \notin HitIds(emitted')]_vars

\* the bat of a mobileCollisionAttack has just swept over its own holder and
\* over a dead player, and hit neither
C15_Witness ==
    /\ step.op = "mobileCollisionAttack"
    /\ step.branch = "swing"
    /\ Collides_server(Get(players, step.sock), BatX, BatY, BatSize)
    /\ Get(players, step.sock).health = 100
    /\ \E i \in 1..Len(players) :
          /\ players[i].health <= 0
          /\ Collides_server(players[i], BatX, BatY, BatSize)
          /\ players[i].id \notin HitIds(emitted)

\* the living players other than the attacker, before the swing
Targets == {i \in 1..Len(players) : players[i].id # step'.sock /\ players[i].health > 0}

Attacker == Get(players, step'.sock)

\* C19: a mobileCollisionAttack hits the first living other player, in
\* registry order, that the bat overlaps, and nobody else (at most one
\* playerHit); an attack or an areaAttack hits every living other player that
\* satisfies its predicate.
C19_MobileHitsFirstOthersHitAll ==
    [][SwingStep
          => /\ step'.op = "mobileCollisionAttack"
                => LET over == {i \in Targets : Collides_server(players[i], BatX, BatY, BatSize)}
                   IN /\ Cardinality(Hits(emitted')) <= 1
                      /\ HitIds(emitted') = {players[i].id : i \in {j \in over : \A k \in over : j <= k}}
             /\ step'.op = "attack"
                => HitIds(emitted')
                      = {players[i].id : i \in {j \in Targets :
                                                  InCone_server(Attacker, players[j], step'.angle)}}
             /\ step'.op = "areaAttack"
                => HitIds(emitted')
                      = {players[i].id : i \in {j \in Targets :
                                                  InArea_server(Attacker, players[j], step'.direction)}}]_vars

\* a mobileCollisionAttack has just hit one player although the bat overlaps
\* another living player as well
C19_Witness ==
    /\ step.op = "mobileCollisionAttack"
    /\ Cardinality(Hits(emitted)) = 1
    /\ \E i \in 1..Len(players) :
          /\ players[i].id # step.sock
          /\ players[i].id \notin HitIds(emitted)
          /\ players[i].health > 0
          /\ Collides_server(players[i], BatX, BatY, BatSize)

LaneRange == MELEE_RANGE + AreaRangeBonus_server

\* within the extended range and the vertical band of the lane
InLaneBand(a, p) ==
    /\ Dist2(a.x, a.y, p.x, p.y) <= Sq(LaneRange)
    /\ Abs(p.y - a.y) <= VerticalRange_server

\* C20 as stated: an areaAttack hits a living other player iff it is within
\* MELEE_RANGE + 30, within 80 units vertically, and direction +1 finds it at
\* dx >= 0 or direction -1 finds it at dx <= 0 (dx = target.x - attacker.x);
\* any other direction hits nothing.
C20_LaneHitIffSignMatchesDirection ==
    [][(SwingStep /\ step'.op = "areaAttack")
          => \A i \in Targets :
                players[i].id \in HitIds(emitted')
                   <=> /\ InLaneBand(Attacker, players[i])
                       /\ \/ step'.direction = 1 /\ players[i].x - Attacker.x >= 0
                          \/ step'.direction = -1 /\ players[i].x - Attacker.x <= 0]_vars

\* C20 amended: direction 1 is a swing to the left and finds targets at
\* dx <= 0, direction -1 is a swing to the right and finds targets at dx >= 0;
\* range, vertical band and the other directions as stated.
C20_LaneHitIffOnAttackedSide ==
    [][(SwingStep /\ step'.op = "areaAttack")
          => \A i \in Targets :
                players[i].id \in HitIds(emitted')
                   <=> /\ InLaneBand(Attacker, players[i])
                       /\ \/ step'.direction = 1 /\ players[i].x - Attacker.x <= 0
                          \/ step'.direction = -1 /\ players[i].x - Attacker.x >= 0]_vars

\* an areaAttack with direction 1 has just hit a player to the left of the
\* attacker and spared a living player to its right
C20_Witness ==
    /\ step.op = "areaAttack"
    /\ step.direction = 1
    /\ \E id \in HitIds(emitted) : Get(players, id).x < Get(players, step.sock).x
    /\ \E i \in 1..Len(players) :
          /\ players[i].x > Get(players, step.sock).x
          /\ players[i].health = 100
          /\ InLaneBand(Get(players, step.sock), players[i])

-----------------------------------------------------------------------------
(* Fan-out, payload and throttle properties *)

\* the sockets an event is delivered to
Receivers(e) ==
    IF e.to = "all" THEN sockets
    ELSE IF e.to = "others" THEN sockets \ {e.sock}
    ELSE {e.sock}

\* C16: an accepted move is broadcast as one playerUpdate to every connection
\* other than the mover, and the mover's connection does not receive it.
C16_AcceptedMoveGoesToOthersOnly ==
    [][(step'.op = "move" /\ step'.branch = "accepted")
          => /\ Count(emitted', "playerUpdate", step'.sock) = 1
             /\ \A i \in 1..Len(emitted') :
                   emitted'[i].type = "playerUpdate"
                      => Receivers(emitted'[i]) = sockets \ {step'.sock}]_vars

\* a player's record with the activity stamp left out
Unstamped(p) == [p EXCEPT !.lastActivity = 0]

\* C17: an event that arrives with no data object raises no error, emits
\* nothing and leaves the registry as it was.
C17_EventWithoutDataIsDropped ==
    [][~step'.data
          => /\ step'.branch # "TypeError"
             /\ emitted' = <<>>
             /\ Len(players') = Len(players)
             /\ \A i \in 1..Len(players) : Unstamped(players'[i]) = Unstamped(players[i])]_vars

\* the time since the mover's last accepted move, at a move
SinceLastMove == now - OrZero(MoverBefore.lastMovementUpdate)

\* C18: a move of a living player handled less than 16 ms after its last
\* accepted move changes no record and emits nothing, and no later step that
\* is not a move changes a position or an orientation; a move handled 16 ms
\* or more after the last accepted one (or the first move) is applied: x, y
\* and the optional fields that are present are stored, lastActivity and
\* lastMovementUpdate are set to the current time.
C18_ThrottledMoveIsDropped ==
    [][/\ (MoveOfLivingPlayer /\ SinceLastMove < 16)
             => players' = players /\ emitted' = <<>>
       /\ (MoveOfLivingPlayer /\ SinceLastMove >= 16)
             => LET q == Get(players', step'.sock)
                IN /\ q.x = step'.x /\ q.y = step'.y
                   /\ q.direction = IF step'.direction = Undefined THEN MoverBefore.direction
                                    ELSE step'.direction
                   /\ q.weaponAngle = IF step'.angle = Undefined THEN MoverBefore.weaponAngle
                                      ELSE step'.angle
                   /\ q.lastActivity = now
                   /\ q.lastMovementUpdate = now
                   /\ Count(emitted', "playerUpdate", step'.sock) = 1
       /\ step'.op # "move"
             => \A id \in Ids(players) \cap Ids(players') :
                   /\ Get(players', id).x = Get(players, id).x
                   /\ Get(players', id).y = Get(players, id).y
                   /\ Get(players', id).direction = Get(players, id).direction
                   /\ Get(players', id).weaponAngle = Get(players, id).weaponAngle]_vars

\* a move with new coordinates and orientation has just been dropped 15 ms
\* after the mover's last accepted move
C18_Witness ==
    /\ step.op = "move"
    /\ step.branch = "throttled"
    /\ now - Get(players, step.sock).lastMovementUpdate = 15
    /\ step.x # Get(players, step.sock).x
    /\ step.angle # Undefined
    /\ Get(players, step.sock).weaponAngle = 0

-----------------------------------------------------------------------------
(* Eviction, reconciliation and admission-table properties (part_001) *)

\* the address of the connection being admitted
NewAddress == handshake'[step'.sock]

\* the live connections a reset of the address evicts
Evicted ==
    IF NewAddress \in DOMAIN ipConnections
    THEN ipConnections[NewAddress] \cap sockets
    ELSE {}

\* the positions of an event type about one player in a handler's output
At(evs, type, pid) == {i \in 1..Len(evs) : evs[i].type = type /\ evs[i].pid = pid}

StaleRecord(c) == Has(players, c) /\ c \notin sockets

\* an identity the admission table holds for some address
Admitted(c) == \E ip \in DOMAIN ipConnections : c \in ipConnections[ip]

\* an identity the admission table holds although it has no transport
StaleEntry(c) == Admitted(c) /\ c \notin sockets

\* C22: with the periodic sweeps scheduled fairly, a Player record whose
\* transport is gone is eventually removed from the registry, and an identity
\* the admission table holds without a transport is eventually removed from
\* it.  Where the transport delivers the same identity again, the removed
\* record or entry may be replaced in the same step by one of a live transport.
C22_StaleStateIsEventuallyRemoved ==
    \A c \in RegistryIds :
        /\ StaleRecord(c) ~> ~StaleRecord(c)
        /\ StaleEntry(c) ~> ~StaleEntry(c)

\* a duplicate connection from another address has left a record without a
\* transport and its identity in the admission table
C22_Witness ==
    \E c \in RegistryIds :
        /\ StaleRecord(c)
        /\ Admitted(c)
        /\ step.op = "connection"

\* C23: the admission table holds no empty set; a connection leaves its
\* address with an entry that holds the new identity (unless the connection
\* is closed again at once as a duplicate), and the close of a connection
\* takes its identity out of the table, the entry with it when it was the last.
C23_NoEmptyAdmissionRecord ==
    [][/\ \A ip \in DOMAIN ipConnections' : ipConnections'[ip] # {}
       /\ (step'.op = "connection" /\ step'.branch # "duplicate")
             => /\ NewAddress \in DOMAIN ipConnections'
                /\ step'.sock \in ipConnections'[NewAddress]
       /\ step'.op = "disconnect"
             => \A ip \in DOMAIN ipConnections' : step'.sock \notin ipConnections'[ip]]_vars

\* the last connection of an address has just closed and the entry of the
\* address is gone, while the other address keeps its entry
C23_Witness ==
    /\ step.op = "disconnect"
    /\ handshake[step.sock] \notin DOMAIN ipConnections
    /\ DOMAIN ipConnections # {}

-----------------------------------------------------------------------------
(* Life-cycle properties of a Player record (server.js and part_001) *)

\* the revive of player id has just run
RevivedNow(id) == step'.op = "timeout" /\ step'.sock = id /\ step'.branch = "revived"

\* C24: a player whose health is 0 or less keeps its health and its position
\* through every move and every attack, its own and the others'; the only
\* step that changes them is the respawn timer callback of that player, which
\* sets the health to maxHealth and the position to a new spawn point.
C24_DeadStayPutUntilRevived ==
    [][\A id \in Staying :
          Get(players, id).health <= 0
             => \/ /\ Get(players', id).health = Get(players, id).health
                   /\ Get(players', id).x = Get(players, id).x
                   /\ Get(players', id).y = Get(players, id).y
                \/ /\ RevivedNow(id)
                   /\ Get(players', id).health = Get(players', id).maxHealth
                   /\ Margin <= Get(players', id).x
                   /\ Get(players', id).x <= MapWidth - Margin
                   /\ Margin <= Get(players', id).y
                   /\ Get(players', id).y <= MapHeight - Margin]_vars

\* a dead player has just sent a move to another place and stays where it died
C24_Witness ==
    /\ step.op = "move"
    /\ step.branch = "ignored"
    /\ Has(players, step.sock)
    /\ Get(players, step.sock).health <= 0
    /\ step.x # Get(players, step.sock).x

\* C25: every Player record has 0 <= health <= maxHealth.
C25_HealthWithinBounds ==
    \A i \in 1..Len(players) :
        /\ 0 <= players[i].health
        /\ players[i].health <= players[i].maxHealth

\* a swing has just brought a player to exactly 0 while another, revived
\* before, is at maxHealth again
C25_Witness ==
    /\ step.op \in AttackOps
    /\ \E i \in 1..Len(players) :
          /\ players[i].health = 0
          /\ Count(emitted, "playerKilled", players[i].id) = 1
    /\ \E i \in 1..Len(players) :
          /\ players[i].health = players[i].maxHealth
          /\ recordedAt[players[i].id] > StartTime

\* C26: lastActivity follows the server clock only: whatever a step does, no
\* player's lastActivity decreases and none lies after the current time.
C26_LastActivityFollowsServerClock ==
    [][\A id \in Staying :
          /\ Get(players', id).lastActivity >= Get(players, id).lastActivity
          /\ Get(players', id).lastActivity <= now']_vars

\* C28: the revive of a player whose health is above 0 when the timer fires
\* leaves the player's health and position as they are.
C28_ReviveOfLivingPlayerIsNoOp ==
    [][\A id \in Staying :
          (RevivedNow(id) /\ Get(players, id).health > 0)
             => /\ Get(players', id).health = Get(players, id).health
                /\ Get(players', id).x = Get(players, id).x
                /\ Get(players', id).y = Get(players, id).y]_vars

-----------------------------------------------------------------------------
(* Client views *)

\* an event of a handler's output reaches the connected client c
Reaches(e, c) ==
    \/ e.to = "all"
    \/ e.to = "others" /\ e.sock # c
    \/ e.to = "one" /\ e.sock = c

\* what a client does with one event: playerUpdate and playerRespawned make
\* the player known, playerLeft makes it unknown
Learn(known, e) ==
    IF e.type \in {"playerUpdate", "playerRespawned"} THEN known \cup {e.pid}
    ELSE IF e.type = "playerLeft" THEN known \ {e.pid}
    ELSE known

\* the identities client c knows after the events evs, knowing known before
RECURSIVE ViewAfter(_, _, _)
ViewAfter(known, evs, c) ==
    IF evs = <<>> THEN known
    ELSE ViewAfter(IF Reaches(Head(evs), c) THEN Learn(known, Head(evs)) ELSE known,
                   Tail(evs), c)

\* C27: every handler keeps the view of every connected client equal to the
\* registry: for a client connected before and after the step, the events it
\* receives turn the set of registered identities before the step into the
\* set after it, so that a view that agreed with the registry agrees again.
C27_ClientViewsFollowRegistry ==
    [][\A c \in sockets \cap sockets' :
          ViewAfter(Ids(players), emitted', c) = Ids(players')]_vars

====
